---- MODULE Spec2Model ----
(***************************************************************************)
(* Model of src/src/Client.ts: the Client constructor (header merge and    *)
(* axios-retry options) and Client.request (URL construction, auth query   *)
(* parameters, dry run, POST path, GET path and their error handlers).     *)
(*                                                                         *)
(* Strings are sequences of atoms.  An atom is one character of the        *)
(* string; a multi-letter atom such as "route" stands for a run of         *)
(* unreserved characters (letters, "-", "_", "."), which no encoder or     *)
(* parser below treats specially.  An optional value (x?: T) is <<>> when  *)
(* undefined and <<v>> when it holds v.                                    *)
(***************************************************************************)
EXTENDS Integers, Sequences, FiniteSets, TLC

\* ------------------------------------------------------------------------
\* Bounds of the model
\* ------------------------------------------------------------------------
MaxRetriesBound == 2
NumCalls == 2

\* ------------------------------------------------------------------------
\* Generic helpers on sequences
\* ------------------------------------------------------------------------
None == <<>>
Some(x) == <<x>>
IsDef(o) == Len(o) = 1
Val(o) == o[1]

RECURSIVE Flatten(_)
Flatten(ss) == IF Len(ss) = 0 THEN <<>> ELSE Head(ss) \o Flatten(Tail(ss))

\* index of the first atom of s that lies in set cs, or Len(s)+1
RECURSIVE FirstIn(_, _, _)
FirstIn(s, cs, i) ==
  IF i > Len(s) THEN Len(s) + 1
  ELSE IF s[i] \in cs THEN i ELSE FirstIn(s, cs, i + 1)

\* s contains sub as a contiguous run
Contains(s, sub) ==
  \E i \in 0..(Len(s) - Len(sub)) : SubSeq(s, i + 1, i + Len(sub)) = sub

\* String.prototype.split on a one-atom separator
RECURSIVE Split(_, _)
Split(s, sep) ==
  LET i == FirstIn(s, {sep}, 1)
  IN IF i > Len(s) THEN <<s>>
     ELSE <<SubSeq(s, 1, i - 1)>> \o Split(SubSeq(s, i + 1, Len(s)), sep)

\* ------------------------------------------------------------------------
\* WHATWG URL, as used by `new URL(...)`, `urlObj.searchParams.append` and
\* `urlObj.toString()` in Client.request
\* ------------------------------------------------------------------------
Digits == {"0", "2", "3", "5", "6", "8", "9"}
HexTable ==
  [c \in {" ", "&", "=", "+", "%", "#", "?", "/", ":", "\""} |->
     CASE c = " "  -> <<"%", "2", "0">>
       [] c = "&"  -> <<"%", "2", "6">>
       [] c = "="  -> <<"%", "3", "D">>
       [] c = "+"  -> <<"%", "2", "B">>
       [] c = "%"  -> <<"%", "2", "5">>
       [] c = "#"  -> <<"%", "2", "3">>
       [] c = "?"  -> <<"%", "3", "F">>
       [] c = "/"  -> <<"%", "2", "F">>
       [] c = ":"  -> <<"%", "3", "A">>
       [] c = "\"" -> <<"%", "2", "2">>]

\* application/x-www-form-urlencoded byte serializer (URLSearchParams)
FormEncodeAtom(c) ==
  IF c = " " THEN <<"+">>
  ELSE IF c \in DOMAIN HexTable THEN HexTable[c] ELSE <<c>>

FormEncode(s) == Flatten([i \in 1..Len(s) |-> FormEncodeAtom(s[i])])

\* percent-decode: "%XY" becomes the character it encodes, a stray "%" stays
RECURSIVE PercentDecode(_)
PercentDecode(s) ==
  IF Len(s) = 0 THEN <<>>
  ELSE IF s[1] = "%" /\ Len(s) >= 3
          /\ \E c \in DOMAIN HexTable : HexTable[c] = SubSeq(s, 1, 3)
       THEN <<CHOOSE c \in DOMAIN HexTable : HexTable[c] = SubSeq(s, 1, 3)>>
            \o PercentDecode(SubSeq(s, 4, Len(s)))
       ELSE <<s[1]>> \o PercentDecode(Tail(s))

PlusToSpace(s) == [i \in 1..Len(s) |-> IF s[i] = "+" THEN " " ELSE s[i]]

\* application/x-www-form-urlencoded parser: the list of name/value pairs
ParsePair(p) ==
  LET i == FirstIn(p, {"="}, 1)
  IN [k |-> PercentDecode(PlusToSpace(SubSeq(p, 1, i - 1))),
      v |-> PercentDecode(PlusToSpace(SubSeq(p, i + 1, Len(p))))]

ParseQuery(q) ==
  LET parts == Split(q, "&")
      keep  == SelectSeq(parts, LAMBDA p : Len(p) > 0)
  IN [i \in 1..Len(keep) |-> ParsePair(keep[i])]

RECURSIVE SerializeQuery(_)
SerializeQuery(list) ==
  IF Len(list) = 0 THEN <<>>
  ELSE FormEncode(list[1].k) \o <<"=">> \o FormEncode(list[1].v)
       \o (IF Len(list) > 1 THEN <<"&">> ELSE <<>>)
       \o SerializeQuery(Tail(list))

\* path / query / fragment percent-encode sets: of the atoms used here only
\* the space (and the double quote) is encoded
UrlEncode(s) ==
  Flatten([i \in 1..Len(s) |->
             IF s[i] \in {" ", "\""} THEN HexTable[s[i]] ELSE <<s[i]>>])

\* `new URL(input)` without a base.  ok = FALSE is the TypeError the
\* constructor throws for an input that is not an absolute URL.
URLParse(input) ==
  LET hasScheme == Len(input) >= 1 /\ input[1] = "http://"
      rest      == IF hasScheme THEN Tail(input) ELSE input
      aEnd      == FirstIn(rest, {"/", "?", "#"}, 1)
      authority == SubSeq(rest, 1, aEnd - 1)
      colon     == FirstIn(authority, {":"}, 1)
      host      == SubSeq(authority, 1, colon - 1)
      portStr   == SubSeq(authority, colon + 1, Len(authority))
      after     == SubSeq(rest, aEnd, Len(rest))
      hashAt    == FirstIn(after, {"#"}, 1)
      beforeH   == SubSeq(after, 1, hashAt - 1)
      qAt       == FirstIn(beforeH, {"?"}, 1)
      pathStr   == SubSeq(beforeH, 1, qAt - 1)
      hostOk    == Len(host) > 0
                   /\ \A i \in 1..Len(host) :
                        host[i] \notin {" ", "%", "=", "&", "+", "\""}
      portOk    == \A i \in 1..Len(portStr) : portStr[i] \in Digits
  IN IF ~hasScheme \/ ~hostOk \/ ~portOk
     THEN [ok |-> FALSE]
     ELSE [ok       |-> TRUE,
           scheme   |-> "http://",
           host     |-> host,
           \* the scheme's default port is dropped
           port     |-> IF portStr = <<"8", "0">> THEN <<>> ELSE portStr,
           path     |-> IF Len(pathStr) = 0 THEN <<"/">> ELSE UrlEncode(pathStr),
           query    |-> IF qAt > Len(beforeH) THEN None
                        ELSE Some(UrlEncode(SubSeq(beforeH, qAt + 1, Len(beforeH)))),
           fragment |-> IF hashAt > Len(after) THEN None
                        ELSE Some(UrlEncode(SubSeq(after, hashAt + 1, Len(after))))]

\* the URL's query object: the parsed name/value list of its query
SearchParams(u) == IF IsDef(u.query) THEN ParseQuery(Val(u.query)) ELSE <<>>

\* urlObj.searchParams.append(k, v): append to the list, then update the
\* URL's query with the serialization of the whole list
SearchParamsAppend(u, k, v) ==
  LET list == Append(SearchParams(u), [k |-> k, v |-> v])
  IN [u EXCEPT !.query = Some(SerializeQuery(list))]

\* urlObj.toString(): the URL serializer
URLToString(u) ==
  <<u.scheme>> \o u.host
  \o (IF Len(u.port) > 0 THEN <<":">> \o u.port ELSE <<>>)
  \o u.path
  \o (IF IsDef(u.query) THEN <<"?">> \o Val(u.query) ELSE <<>>)
  \o (IF IsDef(u.fragment) THEN <<"#">> \o Val(u.fragment) ELSE <<>>)

\* ------------------------------------------------------------------------
\* JSON.stringify of a parameter object.  An object is the sequence of its
\* [k, v] entries in insertion order; keys and values are strings.
\* ------------------------------------------------------------------------
JSONQuote(s) ==
  <<"\"">>
  \o Flatten([i \in 1..Len(s) |->
                IF s[i] = "\"" THEN <<"\\", "\"">> ELSE <<s[i]>>])
  \o <<"\"">>

RECURSIVE JSONEntries(_)
JSONEntries(obj) ==
  IF Len(obj) = 0 THEN <<>>
  ELSE JSONQuote(obj[1].k) \o <<":">> \o JSONQuote(obj[1].v)
       \o (IF Len(obj) > 1 THEN <<",">> ELSE <<>>)
       \o JSONEntries(Tail(obj))

JSONStringify(obj) == <<"{">> \o JSONEntries(obj) \o <<"}">>

\* `${JSON.stringify(p)}` in a template literal: JSON.stringify(undefined)
\* is undefined, which the template renders as the text "undefined"
TemplateJSON(p) == IF IsDef(p) THEN JSONStringify(Val(p)) ELSE <<"undefined">>

\* ------------------------------------------------------------------------
\* ./options (defaults used by the constructor's parameter list)
\* ------------------------------------------------------------------------
options_defaultHeaders ==
  [k \in {"Content-Type", "Accept"} |-> "application/json"]
options_defaultUserAgent == "routingjs"
options_defaultTimeout == 30000
options_defaultMaxRetries == 1

\* ------------------------------------------------------------------------
\* Client constructor
\* ------------------------------------------------------------------------
\* object spread { ...a, ...b }: b's entries override a's
Spread(a, b) ==
  [k \in DOMAIN a \cup DOMAIN b |-> IF k \in DOMAIN b THEN b[k] ELSE a[k]]

EmptyObj == [k \in {} |-> ""]

\* this.headers = { ...options.defaultHeaders, "User-Agent": userAgent,
\*                  ...this.headers }
MergeHeaders_CallerFirst(userAgent, headers) ==
  Spread(Spread(IF IsDef(headers) THEN Val(headers) ELSE EmptyObj,
                options_defaultHeaders),
         [k \in {"User-Agent"} |-> userAgent])

MergeHeaders(userAgent, headers) ==
  Spread(Spread(options_defaultHeaders, [k \in {"User-Agent"} |-> userAgent]),
         IF IsDef(headers) THEN Val(headers) ELSE EmptyObj)

\* this.axiosOptions = { headers: this.headers, timeout, ...additionalAxiosOpts }
AxiosOptions(headers, timeout, additionalAxiosOpts) ==
  LET extra == IF IsDef(additionalAxiosOpts) THEN Val(additionalAxiosOpts)
               ELSE [headers |-> None, timeout |-> None]
  IN [headers |-> IF IsDef(extra.headers) THEN Val(extra.headers) ELSE headers,
      timeout |-> IF IsDef(extra.timeout) THEN Val(extra.timeout) ELSE timeout]

\* retryOpts: retries and whether a custom retryCondition is installed
RetryOpts(maxRetries, retryOverQueryLimit) ==
  [retries |-> maxRetries, customCondition |-> retryOverQueryLimit]

\* the arguments of `new Client(...)`; an omitted argument takes its default
Constructor(a) ==
  LET userAgent  == IF IsDef(a.userAgent) THEN Val(a.userAgent)
                    ELSE options_defaultUserAgent
      timeout    == IF IsDef(a.timeout) THEN Val(a.timeout)
                    ELSE options_defaultTimeout
      maxRetries == IF IsDef(a.maxRetries) THEN Val(a.maxRetries)
                    ELSE options_defaultMaxRetries
      retryOverQueryLimit == IF IsDef(a.retryOverQueryLimit)
                             THEN Val(a.retryOverQueryLimit) ELSE FALSE
      headers    == MergeHeaders(userAgent, a.headers)
  IN [baseURL             |-> a.baseURL,
      userAgent           |-> userAgent,
      timeout             |-> timeout,
      retryOverQueryLimit |-> retryOverQueryLimit,
      headers             |-> headers,
      maxRetries          |-> maxRetries,
      additionalAxiosOpts |-> a.additionalAxiosOpts,
      axiosOptions        |-> AxiosOptions(headers, timeout, a.additionalAxiosOpts),
      retryOpts           |-> RetryOpts(maxRetries, retryOverQueryLimit)]

\* ------------------------------------------------------------------------
\* State
\* ------------------------------------------------------------------------
VARIABLES
  client,       \* the Client instance's fields, as the constructor left them
  ctorHeaders,  \* the `headers` argument the constructor was called with
  runtime,      \* "node" or "browser": decides what error.request is
  calls,        \* per request() invocation: its arguments, locals and promise
  issued        \* the axiosInstance.get / .post invocations made so far

vars == <<client, ctorHeaders, runtime, calls, issued>>

Calls == 1..NumCalls

NoArgs ==
  [endpoint |-> <<>>, getParams |-> None, postParams |-> None,
   auth |-> None, dryRun |-> FALSE]

NoOutcome == [kind |-> "pending", value |-> <<>>, name |-> "", status |-> None,
              carries |-> ""]

IdleCall ==
  [st |-> "idle", args |-> NoArgs, method |-> "none", url |-> <<>>,
   results |-> <<>>, out |-> NoOutcome]

Resolved(v) == [NoOutcome EXCEPT !.kind = "resolved", !.value = v]
Rejected(name, status, carries) ==
  [NoOutcome EXCEPT !.kind = "rejected", !.name = name, !.status = status,
                    !.carries = carries]

\* ------------------------------------------------------------------------
\* Client.request: the synchronous part (lines 173-214)
\* ------------------------------------------------------------------------
\* `postParams !== undefined`
UsePost_OnlyWithoutGetParams(a) == IsDef(a.postParams) /\ ~IsDef(a.getParams)

UsePost(a) == IsDef(a.postParams)

\* `dryRun === true`
IsDryRun_Ignored(a) == FALSE

IsDryRun(a) == a.dryRun = TRUE

\* for (const [k, v] of Object.entries(auth)) urlObj.searchParams.append(k, v)
RECURSIVE AppendEntries(_, _)
AppendEntries(u, entries) ==
  IF Len(entries) = 0 THEN u
  ELSE AppendEntries(SearchParamsAppend(u, entries[1].k, entries[1].v),
                     Tail(entries))

\* a hand-rolled "&k=v" concatenation instead of searchParams.append
RECURSIVE AppendEntries_Raw(_, _)
AppendEntries_Raw(u, entries) ==
  IF Len(entries) = 0 THEN u
  ELSE AppendEntries_Raw(
         [u EXCEPT !.query =
            Some((IF IsDef(u.query) THEN Val(u.query) \o <<"&">> ELSE <<>>)
                 \o entries[1].k \o <<"=">> \o entries[1].v)],
         Tail(entries))

\* the URL object after lines 174-180: auth is appended on the POST branch
\* only, the GET branch never reads `auth`
AuthURL_AnyMethod(u, a) ==
  IF IsDef(a.auth) THEN AppendEntries(u, Val(a.auth)) ELSE u

AuthURL_Raw(u, a) ==
  IF UsePost(a) /\ IsDef(a.auth) THEN AppendEntries_Raw(u, Val(a.auth)) ELSE u

AuthURL(u, a) ==
  IF UsePost(a) /\ IsDef(a.auth) THEN AppendEntries(u, Val(a.auth)) ELSE u

\* the dry-run template literal
RequestInfo(url, method, params) ==
  <<"URL: ">> \o url \o <<"\n", "Method: ", method, "\n", "Parameters: ">>
  \o TemplateJSON(params) \o <<"\n">>

\* what the server answers to a request it received: a payload that names
\* the request, so that a payload can be told from any other request's
ServerReply(req) ==
  <<"reply to ", req.method>> \o req.url \o <<" body ">> \o TemplateJSON(req.data)
  \o <<" params ">> \o TemplateJSON(req.params)

\* the arguments of the one axiosInstance.get / .post call of invocation c
PostCall(c, url, a) ==
  [call |-> c, method |-> "POST", url |-> url, data |-> a.postParams,
   params |-> None, headers |-> client.axiosOptions.headers]

GetCall(c, url, a) ==
  [call |-> c, method |-> "GET", url |-> url, data |-> None,
   params |-> a.getParams, headers |-> client.axiosOptions.headers]

\* request(requestArgs) up to the point where it returns its promise
RequestBody(c, a) ==
  /\ calls[c].st = "idle"
  /\ LET u0 == URLParse(client.baseURL \o a.endpoint)
     IN IF ~u0.ok
        THEN \* new URL(...) throws: the async function rejects
             /\ calls' = [calls EXCEPT ![c] =
                  [IdleCall EXCEPT !.st = "settled", !.args = a,
                     !.out = Rejected("TypeError", None, "Invalid URL")]]
             /\ issued' = issued
        ELSE LET u      == AuthURL(u0, a)
                 url    == URLToString(u)
                 method == IF UsePost(a) THEN "POST" ELSE "GET"
                 params == IF UsePost(a) THEN a.postParams ELSE a.getParams
             IN IF IsDryRun(a)
                THEN /\ calls' = [calls EXCEPT ![c] =
                          [IdleCall EXCEPT !.st = "settled", !.args = a,
                             !.method = method, !.url = url,
                             !.out = Resolved(RequestInfo(url, method, params))]]
                     /\ issued' = issued
                ELSE /\ calls' = [calls EXCEPT ![c] =
                          [IdleCall EXCEPT !.st = "inflight", !.args = a,
                             !.method = method, !.url = url]]
                     /\ issued' = issued \cup
                          {IF UsePost(a) THEN PostCall(c, url, a)
                           ELSE GetCall(c, url, a)}

\* a request() that kept its URL object on the instance
Request_SharedURL(c, a) ==
  /\ RequestBody(c, a)
  /\ client' = [client EXCEPT !.baseURL =
                  IF calls'[c].method = "none" THEN @ ELSE calls'[c].url]
  /\ UNCHANGED <<ctorHeaders, runtime>>

Request(c, a) ==
  /\ RequestBody(c, a)
  /\ UNCHANGED <<client, ctorHeaders, runtime>>

\* ------------------------------------------------------------------------
\* The transport: axios with axios-retry installed (lines 139-153)
\* ------------------------------------------------------------------------
\* An attempt's result.  kind: "ok" (2xx), "http" (a response with an error
\* status), "network" (sent, no reply, e.g. ECONNRESET), "timeout" (sent, no
\* reply within `timeout`, ECONNABORTED), "setup" (thrown before anything was
\* sent: no response, no request, no config).
Result(kind, status, data) == [kind |-> kind, status |-> status, data |-> data]

HasResponse(r) == r.kind = "http"
HasRequest(r)  == r.kind \in {"http", "network", "timeout"}
HasConfig(r)   == r.kind # "setup"

\* axios-retry's isNetworkOrIdempotentRequestError
IsNetworkError(r) == r.kind = "network"
IsRetryableError(r) ==
  r.kind # "timeout" /\ (~HasResponse(r) \/ (r.status >= 500 /\ r.status <= 599))
IsIdempotentRequestError(method, r) ==
  HasConfig(r) /\ IsRetryableError(r) /\ method \in {"GET"}
IsNetworkOrIdempotentRequestError(method, r) ==
  IsNetworkError(r) \/ IsIdempotentRequestError(method, r)

\* retryCondition: the custom predicate when retryOverQueryLimit, otherwise
\* axios-retry's default
RetryCondition_No429(opts, method, r) ==
  IsNetworkOrIdempotentRequestError(method, r)

RetryCondition(opts, method, r) ==
  IF opts.customCondition
  THEN IsNetworkOrIdempotentRequestError(method, r)
       \/ (HasResponse(r) /\ r.status = 429)
  ELSE IsNetworkOrIdempotentRequestError(method, r)

\* axios-retry's decision after a failed attempt; retryCount retries were
\* already made
ShouldRetry_OffByOne(opts, method, r, retryCount) ==
  HasConfig(r) /\ retryCount <= opts.retries /\ RetryCondition(opts, method, r)

ShouldRetry(opts, method, r, retryCount) ==
  HasConfig(r) /\ retryCount < opts.retries /\ RetryCondition(opts, method, r)

TheIssued(c) == CHOOSE q \in issued : q.call = c

Statuses == {404, 429, 500}

AttemptResults(c) ==
  {Result("ok", 200, ServerReply(TheIssued(c)))}
  \cup {Result("http", s, <<>>) : s \in Statuses}
  \cup {Result(k, 0, <<>>) : k \in {"network", "timeout", "setup"}}

\* one attempt of the transport for invocation c ends with result r
Attempt(c, r) ==
  /\ calls[c].st = "inflight"
  /\ LET retryCount == Len(calls[c].results)
         again == r.kind # "ok"
                  /\ ShouldRetry(client.retryOpts, calls[c].method, r, retryCount)
     IN calls' = [calls EXCEPT ![c].results = Append(@, r),
                               ![c].st = IF again THEN "inflight" ELSE "handlers"]
  /\ UNCHANGED <<client, ctorHeaders, runtime, issued>>

\* the transport finishes one attempt of invocation c, with any result
Transport(c) ==
  /\ calls[c].st = "inflight"
  /\ \E r \in AttemptResults(c) : Attempt(c, r)

Last(c) == calls[c].results[Len(calls[c].results)]

\* ------------------------------------------------------------------------
\* The promise handlers of Client.request
\* ------------------------------------------------------------------------
\* .then((res) => res.data).catch((error) => { throw new RoutingJSAPIError })
PostError_ThreeWay(r) ==
  IF HasResponse(r) THEN Rejected("RoutingJSAPIError", Some(r.status), "error")
  ELSE IF HasRequest(r) THEN Rejected("RoutingJSAPIError", None, "error")
  ELSE Rejected("RoutingJSClientError", None, "error")

PostError(r) ==
  Rejected("RoutingJSAPIError",
           IF HasResponse(r) THEN Some(r.status) ELSE None, "error")

PostHandlers(c) ==
  /\ calls[c].st = "handlers"
  /\ calls[c].method = "POST"
  /\ calls' = [calls EXCEPT ![c].st = "settled",
                 ![c].out = IF Last(c).kind = "ok" THEN Resolved(Last(c).data)
                            ELSE PostError(Last(c))]
  /\ UNCHANGED <<client, ctorHeaders, runtime, issued>>

\* JSON.stringify(error.request): error.request is the runtime's request
\* object.  A browser's XMLHttpRequest serializes to "{}"; Node's
\* ClientRequest is cyclic (socket._httpMessage points back to the request),
\* and JSON.stringify throws a TypeError on a cyclic value.
StringifyRequestThrows(rt) == rt = "node"

\* .catch((error: AxiosError) => { ... })
GetError(r, rt) ==
  IF HasResponse(r)
  THEN Rejected("RoutingJSAPIError", Some(r.status), "message")
  ELSE IF HasRequest(r)
       THEN IF StringifyRequestThrows(rt)
            THEN Rejected("TypeError", None, "circular structure")
            ELSE Rejected("RoutingJSAPIError", None, "request")
       ELSE Rejected("RoutingJSClientError", None, "name and message")

\* .catch(...).then((res: AxiosResponse) => res.data)
GetHandlers(c) ==
  /\ calls[c].st = "handlers"
  /\ calls[c].method = "GET"
  /\ calls' = [calls EXCEPT ![c].st = "settled",
                 ![c].out = IF Last(c).kind = "ok" THEN Resolved(Last(c).data)
                            ELSE GetError(Last(c), runtime)]
  /\ UNCHANGED <<client, ctorHeaders, runtime, issued>>

\* ------------------------------------------------------------------------
\* Inputs
\* ------------------------------------------------------------------------
BaseURL == <<"http://", "host", ":", "8">>

Endpoints ==
  { <<"/", "route">>,
    <<"/", "route", "?", "alt", "=", "1">>,
    <<"/", "iso", "#", "top">>,
    <<"route">> }                      \* no leading slash: "http://host:8route"

GetParamChoices ==
  { None, Some(<<[k |-> <<"key">>, v |-> <<"abc">>]>>) }

PostParamChoices ==
  { None, Some(<<>>),
    Some(<<[k |-> <<"costing">>, v |-> <<"auto">>],
           [k |-> <<"id">>, v |-> <<"a", "\"", "b">>]>>) }

AuthChoices ==
  { None,
    Some(<<[k |-> <<"access_token">>, v |-> <<"pk.x">>]>>),
    Some(<<[k |-> <<"access_token">>, v |-> <<"a", "&", "b", "=", "c", " ", "d">>],
           [k |-> <<"k", "+">>, v |-> <<"%", "2", "6">>]>>) }

AllArgs ==
  [endpoint : Endpoints, getParams : GetParamChoices,
   postParams : PostParamChoices, auth : AuthChoices, dryRun : BOOLEAN]

HeaderChoices ==
  { None,
    Some(EmptyObj),
    Some([k \in {"Authorization"} |-> "Bearer t"]),
    Some([k \in {"User-Agent", "Accept"} |->
            IF k = "User-Agent" THEN "caller-agent" ELSE "text/plain"]),
    Some([k \in {"user-agent", "Content-Type"} |-> "other"]) }

CtorArgs(userAgents, timeouts, flags, headerSet, retrySet, extras) ==
  [baseURL : {BaseURL}, userAgent : userAgents, timeout : timeouts,
   retryOverQueryLimit : flags, headers : headerSet, maxRetries : retrySet,
   additionalAxiosOpts : extras]

InitWith(argSet, runtimes) ==
  /\ \E a \in argSet :
       /\ client = Constructor(a)
       /\ ctorHeaders = a.headers
  /\ runtime \in runtimes
  /\ calls = [c \in Calls |-> IdleCall]
  /\ issued = {}

\* ------------------------------------------------------------------------
\* Spec: one request at a time, every combination of request arguments
\* ------------------------------------------------------------------------
Init ==
  InitWith(CtorArgs({None}, {None}, {None, Some(TRUE)}, {None},
                    {Some(n) : n \in 0..MaxRetriesBound}, {None}),
           {"node", "browser"})

Next ==
  \/ \E a \in AllArgs : Request(1, a)
  \/ Transport(1)
  \/ PostHandlers(1)
  \/ GetHandlers(1)

Spec == Init /\ [][Next]_vars

\* ------------------------------------------------------------------------
\* SpecConc: several request() invocations in flight on one client
\* ------------------------------------------------------------------------
ConcArgs ==
  { [endpoint |-> <<"/", "route">>, getParams |-> None,
     postParams |-> Some(<<[k |-> <<"costing">>, v |-> <<"auto">>]>>),
     auth |-> Some(<<[k |-> <<"access_token">>, v |-> <<"pk.x">>]>>),
     dryRun |-> FALSE],
    [endpoint |-> <<"/", "route", "?", "alt", "=", "1">>, getParams |-> None,
     postParams |-> Some(<<>>),
     auth |-> Some(<<[k |-> <<"access_token">>, v |-> <<"a", "&", "b">>]>>),
     dryRun |-> FALSE],
    [endpoint |-> <<"/", "iso", "#", "top">>,
     getParams |-> Some(<<[k |-> <<"key">>, v |-> <<"abc">>]>>),
     postParams |-> None, auth |-> None, dryRun |-> FALSE],
    [endpoint |-> <<"/", "route">>, getParams |-> None,
     postParams |-> Some(<<[k |-> <<"costing">>, v |-> <<"auto">>]>>),
     auth |-> Some(<<[k |-> <<"access_token">>, v |-> <<"pk.y">>]>>),
     dryRun |-> TRUE] }

ConcResults(c) ==
  {r \in AttemptResults(c) : r.kind \in {"ok", "setup"} \/ r.status = 429}

TransportConc(c) ==
  /\ calls[c].st = "inflight"
  /\ \E r \in ConcResults(c) : Attempt(c, r)

InitConc ==
  InitWith(CtorArgs({None}, {None}, {Some(TRUE)},
                    {Some([k \in {"Authorization"} |-> "Bearer t"])},
                    {Some(1)}, {None}),
           {"node"})

NextConc ==
  \E c \in Calls :
    \/ \E a \in ConcArgs : Request(c, a)
    \/ TransportConc(c)
    \/ PostHandlers(c)
    \/ GetHandlers(c)

SpecConc == InitConc /\ [][NextConc]_vars

\* ------------------------------------------------------------------------
\* SpecCtor: every combination of constructor arguments, then one request
\* ------------------------------------------------------------------------
ExtraChoices ==
  { None,
    Some([headers |-> None, timeout |-> Some(5)]),
    Some([headers |-> Some([k \in {"X-Extra"} |-> "1"]), timeout |-> None]) }

ProbeArgs ==
  {a \in AllArgs : /\ a.endpoint = <<"/", "route">>
                   /\ a.auth = None /\ ~a.dryRun
                   /\ IsDef(a.getParams) # IsDef(a.postParams)
                   /\ a.postParams # Some(<<>>)}

TransportProbe(c) ==
  /\ calls[c].st = "inflight"
  /\ \E r \in {q \in AttemptResults(c) : q.kind \in {"ok", "timeout"}} :
       Attempt(c, r)

InitCtor ==
  InitWith(CtorArgs({None, Some("my-app")}, {None, Some(1000)},
                    {None, Some(FALSE), Some(TRUE)}, HeaderChoices,
                    {None} \cup {Some(n) : n \in 0..MaxRetriesBound},
                    ExtraChoices),
           {"node"})

NextCtor ==
  \/ \E a \in ProbeArgs : Request(1, a)
  \/ TransportProbe(1)
  \/ PostHandlers(1)
  \/ GetHandlers(1)

SpecCtor == InitCtor /\ [][NextCtor]_vars

\* ------------------------------------------------------------------------
\* SpecLive: one request, with the transport finishing every attempt it
\* starts (a reply, a network error or the configured timeout) and the
\* promise handlers run by the event loop
\* ------------------------------------------------------------------------
LiveArgs ==
  {a \in AllArgs : /\ a.endpoint \in {<<"/", "route">>, <<"route">>}
                   /\ a.auth = None
                   /\ IsDef(a.getParams) # IsDef(a.postParams)
                   /\ a.postParams # Some(<<>>)}

InitLive ==
  InitWith(CtorArgs({None}, {None}, {None, Some(TRUE)}, {None},
                    {Some(n) : n \in 0..MaxRetriesBound}, {None}),
           {"node"})

NextLive ==
  \/ \E a \in LiveArgs : Request(1, a)
  \/ Transport(1)
  \/ PostHandlers(1)
  \/ GetHandlers(1)

SpecLive ==
  /\ InitLive /\ [][NextLive]_vars
  /\ WF_vars(Transport(1))
  /\ WF_vars(PostHandlers(1))
  /\ WF_vars(GetHandlers(1))

\* ------------------------------------------------------------------------
\* Vocabulary of the properties
\* ------------------------------------------------------------------------
Settled(c)  == calls[c].st = "settled"
IssuedOf(c) == {q \in issued : q.call = c}
InputURL(c) == URLParse(client.baseURL \o calls[c].args.endpoint)
QueryPairs(url) ==
  LET u == URLParse(url)
  IN IF u.ok THEN {SearchParams(u)[i] : i \in 1..Len(SearchParams(u))} ELSE {}
AuthPairs(c) ==
  IF IsDef(calls[c].args.auth)
  THEN {Val(calls[c].args.auth)[i] : i \in 1..Len(Val(calls[c].args.auth))}
  ELSE {}
IsAPIError(o)    == o.kind = "rejected" /\ o.name = "RoutingJSAPIError"
IsClientError(o) == o.kind = "rejected" /\ o.name = "RoutingJSClientError"
Failed(c) == Len(calls[c].results) > 0 /\ Last(c).kind # "ok"

\* the text a dry run must resolve with: the URL of baseURL+endpoint in
\* fully-qualified form, the method postParams selects, that method's
\* parameters as JSON
DryRunText(c) ==
  LET a == calls[c].args
      o == calls[c].out
      u == URLParse(calls[c].url)
  IN /\ o.kind = "resolved"
     /\ u.ok /\ URLToString(u) = calls[c].url
     /\ u.host = InputURL(c).host /\ u.port = InputURL(c).port
     /\ u.path = InputURL(c).path
     /\ Contains(o.value, <<"URL: ">> \o calls[c].url \o <<"\n">>)
     /\ Contains(o.value,
                 <<"Method: ", IF IsDef(a.postParams) THEN "POST" ELSE "GET">>)
     /\ Contains(o.value,
                 <<"Parameters: ">>
                 \o (IF IsDef(a.postParams) THEN TemplateJSON(a.postParams)
                     ELSE TemplateJSON(a.getParams)))

\* C1 (as stated): a dry run issues no transport GET or POST, always
\* resolves, and resolves with a text holding the URL, the method name and
\* the JSON of that method's parameters, whatever the arguments.
C1_AsStated ==
  \A c \in Calls :
    (calls[c].st # "idle" /\ calls[c].args.dryRun) =>
       /\ IssuedOf(c) = {}
       /\ Settled(c)
       /\ DryRunText(c)

\* C1 (amended): a dry run issues no transport GET or POST and never rejects
\* with an API or client error; when baseURL+endpoint parses as an absolute
\* URL it resolves with the text holding the URL, the method name and the
\* JSON of that method's parameters, and otherwise it rejects with the
\* TypeError of the URL constructor.
C1_DryRun ==
  \A c \in Calls :
    (calls[c].st # "idle" /\ calls[c].args.dryRun) =>
       /\ IssuedOf(c) = {}
       /\ Settled(c)
       /\ calls[c].results = <<>>
       /\ ~IsAPIError(calls[c].out) /\ ~IsClientError(calls[c].out)
       /\ InputURL(c).ok => DryRunText(c)
       /\ ~InputURL(c).ok =>
            calls[c].out.kind = "rejected" /\ calls[c].out.name = "TypeError"

C1_Witness ==
  \E c \in Calls :
    /\ Settled(c) /\ calls[c].args.dryRun
    /\ IsDef(calls[c].args.postParams) /\ IsDef(calls[c].args.auth)
    /\ calls[c].out.kind = "resolved"

\* C2: a call is routed as POST exactly when postParams is not undefined
\* (an empty object and a call that also has getParams included) and as GET
\* otherwise; a call issues at most one transport request, of that method.
C2_MethodByPostParams ==
  \A c \in Calls :
    /\ (calls[c].st # "idle" /\ InputURL(c).ok) => calls[c].method # "none"
    /\ calls[c].method # "none" =>
         (calls[c].method = "POST" <=> IsDef(calls[c].args.postParams))
    /\ calls[c].method # "none" =>
         (calls[c].method = "GET" <=> ~IsDef(calls[c].args.postParams))
    /\ \A q \in IssuedOf(c) :
         /\ q.method = calls[c].method
         /\ q.method = "POST" <=> IsDef(calls[c].args.postParams)
    /\ Cardinality(IssuedOf(c)) <= 1

C2_Witness ==
  \E c \in Calls :
    /\ calls[c].args.postParams = Some(<<>>)
    /\ IsDef(calls[c].args.getParams)
    /\ \E q \in IssuedOf(c) : q.method = "POST"

\* C3: with postParams and auth both defined, the URL the request is sent to
\* (or the dry run reports) has every auth key/value pair among its query
\* parameters, and the POST body is postParams itself.
C3_PostAuthInQuery ==
  \A c \in Calls :
    (calls[c].method = "POST" /\ IsDef(calls[c].args.auth)) =>
       /\ AuthPairs(c) \subseteq QueryPairs(calls[c].url)
       /\ \A q \in IssuedOf(c) :
            /\ q.url = calls[c].url
            /\ q.data = calls[c].args.postParams
            /\ q.params = None
       /\ (Settled(c) /\ calls[c].args.dryRun) =>
            /\ Contains(calls[c].out.value, <<"URL: ">> \o calls[c].url \o <<"\n">>)
            /\ Contains(calls[c].out.value,
                        <<"Parameters: ">> \o TemplateJSON(calls[c].args.postParams)
                        \o <<"\n">>)

C3_Witness ==
  \E c \in Calls :
    /\ calls[c].method = "POST" /\ ~calls[c].args.dryRun
    /\ IsDef(calls[c].args.auth) /\ Len(Val(calls[c].args.auth)) = 2
    /\ IssuedOf(c) # {}

\* C4 (as stated): whatever the method, the URL used or reported has every
\* auth key/value pair among its query parameters.
C4_AsStated ==
  \A c \in Calls :
    (calls[c].method # "none" /\ IsDef(calls[c].args.auth)) =>
       AuthPairs(c) \subseteq QueryPairs(calls[c].url)

\* C4 (amended): auth is appended to the URL only when the call is routed as
\* POST; a call routed as GET does not read auth: its URL is the URL of
\* baseURL+endpoint unchanged, and its query parameters are getParams.
C4_AuthOnlyOnPost ==
  \A c \in Calls :
    (calls[c].method # "none" /\ IsDef(calls[c].args.auth)) =>
       /\ calls[c].method = "POST" =>
            AuthPairs(c) \subseteq QueryPairs(calls[c].url)
       /\ calls[c].method = "GET" =>
            /\ calls[c].url = URLToString(InputURL(c))
            /\ \A q \in IssuedOf(c) :
                 q.url = calls[c].url /\ q.params = calls[c].args.getParams

C4_Witness ==
  \E c \in Calls :
    /\ calls[c].method = "GET" /\ IsDef(calls[c].args.auth)
    /\ IssuedOf(c) # {}
    /\ ~(AuthPairs(c) \subseteq QueryPairs(calls[c].url))

\* C5: a failed GET rejects with an APIError when the failure carries a
\* response, with an APIError when it carries a request but no response, and
\* with a ClientError when it carries neither; nothing else is a ClientError.
C5_GetClassification ==
  \A c \in Calls :
    /\ (Settled(c) /\ calls[c].method = "GET" /\ Failed(c)) =>
         /\ HasResponse(Last(c)) =>
              /\ IsAPIError(calls[c].out)
              /\ calls[c].out.status = Some(Last(c).status)
         /\ (~HasResponse(Last(c)) /\ HasRequest(Last(c))) =>
              IsAPIError(calls[c].out)
         /\ (~HasResponse(Last(c)) /\ ~HasRequest(Last(c))) =>
              IsClientError(calls[c].out)
    /\ IsClientError(calls[c].out) =>
         /\ calls[c].method = "GET" /\ Failed(c)
         /\ ~HasResponse(Last(c)) /\ ~HasRequest(Last(c))

\* C6: every failed POST rejects with an APIError, whichever failure shape
\* applies, and a POST never rejects with a ClientError.
C6_PostAlwaysAPIError ==
  \A c \in Calls :
    calls[c].method = "POST" =>
      /\ (Settled(c) /\ Failed(c)) =>
           /\ IsAPIError(calls[c].out)
           /\ calls[c].out.status =
                (IF HasResponse(Last(c)) THEN Some(Last(c).status) ELSE None)
      /\ ~IsClientError(calls[c].out)

C6_Witness ==
  \E c \in Calls :
    /\ Settled(c) /\ calls[c].method = "POST" /\ Failed(c)
    /\ Last(c).kind = "setup"
    /\ IsAPIError(calls[c].out)

\* C7: with retryOverQueryLimit and maxRetries >= 1, a GET attempt answered
\* 429 is retried while retries remain (so at least once), never more than
\* maxRetries times, and when every attempt is answered 429 the call rejects
\* with an APIError of status 429.
Is429(r) == r.kind = "http" /\ r.status = 429

C7_Retry429 ==
  \A c \in Calls :
    (calls[c].method = "GET" /\ client.retryOverQueryLimit
       /\ client.maxRetries >= 1) =>
      /\ Len(calls[c].results) <= 1 + client.maxRetries
      /\ \A i \in 1..Len(calls[c].results) :
           (Is429(calls[c].results[i]) /\ i <= client.maxRetries) =>
              (calls[c].st = "inflight" \/ Len(calls[c].results) > i)
      /\ (Len(calls[c].results) > 0 /\ Is429(calls[c].results[1])
            /\ calls[c].st # "inflight") => Len(calls[c].results) >= 2
      /\ (Settled(c) /\ Len(calls[c].results) > 0
            /\ \A i \in 1..Len(calls[c].results) : Is429(calls[c].results[i])) =>
           /\ Len(calls[c].results) = 1 + client.maxRetries
           /\ IsAPIError(calls[c].out)
           /\ calls[c].out.status = Some(429)

C7_Witness ==
  \E c \in Calls :
    /\ calls[c].method = "GET" /\ client.retryOverQueryLimit
    /\ client.maxRetries >= 1 /\ Settled(c)
    /\ Len(calls[c].results) = 1 + client.maxRetries
    /\ \A i \in 1..Len(calls[c].results) : Is429(calls[c].results[i])
    /\ IsAPIError(calls[c].out) /\ calls[c].out.status = Some(429)

\* C8: with several calls in flight, each transport request carries its own
\* call's URL, body, query parameters and the client's headers, each call
\* resolves with the reply to its own request, a step of one call changes no
\* other call's record or request, and no step writes a field of the client.
OwnRequest(c) ==
  \A q \in IssuedOf(c) :
    LET a == calls[c].args
        u == URLParse(q.url)
    IN /\ u.ok
       /\ u.host = InputURL(c).host /\ u.port = InputURL(c).port
       /\ u.path = InputURL(c).path /\ u.fragment = InputURL(c).fragment
       /\ QueryPairs(q.url) =
            QueryPairs(URLToString(InputURL(c)))
            \cup (IF IsDef(a.postParams) THEN AuthPairs(c) ELSE {})
       /\ q.data = a.postParams
       /\ q.params = (IF IsDef(a.postParams) THEN None ELSE a.getParams)
       /\ q.headers = client.axiosOptions.headers
       /\ (Settled(c) /\ calls[c].out.kind = "resolved") =>
            calls[c].out.value = ServerReply(q)

C8_Isolation ==
  /\ [](\A c \in Calls : OwnRequest(c) /\ Cardinality(IssuedOf(c)) <= 1)
  /\ [][/\ client' = client
        /\ \A c \in Calls : \A d \in Calls \ {c} :
             calls'[c] # calls[c] =>
               /\ calls'[d] = calls[d]
               /\ {q \in issued' : q.call = d} = IssuedOf(d)]_vars

C8_Witness ==
  \E c \in Calls : \E d \in Calls \ {c} :
    /\ calls[c].st = "inflight" /\ Settled(d)
    /\ calls[d].out.kind = "resolved" /\ ~calls[d].args.dryRun
    /\ calls[c].args # calls[d].args
    /\ IsDef(calls[c].args.auth) /\ IsDef(calls[d].args.auth)
    /\ Len(calls[d].results) = 2

\* C9: the constructor's header map is the default headers, then User-Agent
\* set from userAgent, then the caller's headers: every key the caller
\* supplies has the caller's value (User-Agent included), and every default
\* header the caller does not supply keeps its default value.
CallerHeaders == IF IsDef(ctorHeaders) THEN Val(ctorHeaders) ELSE EmptyObj

C9_HeaderMerge ==
  /\ DOMAIN client.headers =
       DOMAIN options_defaultHeaders \cup {"User-Agent"} \cup DOMAIN CallerHeaders
  /\ \A k \in DOMAIN CallerHeaders : client.headers[k] = CallerHeaders[k]
  /\ \A k \in DOMAIN options_defaultHeaders \ DOMAIN CallerHeaders :
       client.headers[k] = options_defaultHeaders[k]
  /\ "User-Agent" \notin DOMAIN CallerHeaders =>
       client.headers["User-Agent"] = client.userAgent

C9_Witness ==
  /\ IsDef(ctorHeaders)
  /\ DOMAIN CallerHeaders = {"User-Agent", "Accept"}
  /\ client.userAgent = "my-app"
  /\ client.headers["User-Agent"] = "caller-agent"
  /\ client.headers["Accept"] = "text/plain"
  /\ client.headers["Content-Type"] = "application/json"
  /\ \E q \in issued : q.headers = client.headers

\* C10: a request that is not a dry run settles, and settles once: the
\* transport makes at most 1 + maxRetries attempts, every attempt but the
\* last one failed, the outcome is that of the last attempt, the layer calls
\* the transport once, and a settled call never changes again.
LastDecides(c) ==
  (Settled(c) /\ Len(calls[c].results) > 0) =>
     /\ Last(c).kind = "ok" => calls[c].out = Resolved(Last(c).data)
     /\ Last(c).kind # "ok" =>
          /\ calls[c].out.kind = "rejected"
          /\ HasResponse(Last(c)) => calls[c].out.status = Some(Last(c).status)

C10_SettlesOnce ==
  /\ [](\A c \in Calls :
          /\ Len(calls[c].results) <= 1 + client.maxRetries
          /\ \A i \in 1..(Len(calls[c].results) - 1) :
               calls[c].results[i].kind # "ok"
          /\ Cardinality(IssuedOf(c)) <= 1
          /\ Settled(c) => calls[c].out.kind \in {"resolved", "rejected"}
          /\ LastDecides(c))
  /\ [][\A c \in Calls : Settled(c) => calls'[c] = calls[c]]_vars
  /\ \A c \in Calls :
       (calls[c].st \in {"inflight", "handlers"}) ~> Settled(c)

C10_Witness ==
  \E c \in Calls :
    /\ Settled(c) /\ calls[c].method = "POST"
    /\ Len(calls[c].results) = 1 + client.maxRetries
    /\ client.maxRetries >= 1
    /\ \A i \in 1..(Len(calls[c].results) - 1) :
         calls[c].results[i].kind = "network"
    /\ calls[c].out.kind = "resolved"
====
